---------------------------- MODULE Spec2Model ----------------------------
(***************************************************************************)
(* State-machine model of the SPI-mode SD card driver src/sdcard_spi.c:    *)
(* the CRC helpers, command framing, send_command / check_command,         *)
(* find_token, the block read and write paths, sdcard_init and             *)
(* sdcard_deinit.  The card, the SPI bus and the timer are the             *)
(* environment: every byte the card returns is a nondeterministic choice.  *)
(***************************************************************************)
EXTENDS Integers, Sequences, FiniteSets, TLC

VARIABLES
    flags,      \* sd_spi.flags (bit mask of SDF_*)
    err,        \* sd_spi.err   (bit mask of SDE_*)
    rate,       \* bus clock of sd_spi.config; 0 before spi_setup
    cs,         \* level of the chip-select line (0 asserted, 1 released)
    pc,         \* position of the single execution context
    op,         \* public operation in progress ("none" between calls)
    loc,        \* local variables and parameters of the active functions
    hw,         \* bus events of the last step, in order: CS writes, transfers
    lastOp,     \* the public call that has just returned ("none" while one runs)
    lastRet,    \* its return value (uint8_t); NoRet for a void return
    passed,     \* checks that succeeded in the current / last public call
    touched,    \* the current / last public call has accessed the hardware
    ops,        \* number of public calls so far that went on to the card
    inits       \* number of sdcard_init calls among them

vars == <<flags, err, rate, cs, pc, op, loc, hw, lastOp, lastRet, passed,
          touched, ops, inits>>

(***************************************************************************)
(* Bounds of the model.                                                    *)
(***************************************************************************)
MaxInits == 2           \* sdcard_init calls among them
MaxOps == 3             \* public calls that go on to the card, per behaviour
MaxLead == 1            \* idle (0xFF) bytes the card may put before a response
TicksPer50ms == 2       \* timer resolution: poll iterations that fit in 50 ms

(***************************************************************************)
(* Program constants.                                                      *)
(***************************************************************************)
CRC7_POLY == 18
CRC16_POLY == 4129
SPI_INIT_RATE == 400000
SPI_XFER_RATE == 4000000

SDF_INITIALIZED == 1
SDF_HIGH_CAPACITY == 2
SDF_WRITE_PROTECTED == 4
SDF_DEINIT == 8

SDE_NO_IDLE == 1
SDE_IF_COND_ERR == 2
SDE_CRC_ERR == 4
SDE_OP_COND_ERR == 8
SDE_OCR_ERR == 16
SDE_READ_ERR == 32
SDE_WRITE_ERR == 64
SDE_OTHER_ERR == 128

CF_APP_CMD == 1
CF_FULL_RESP == 2
CF_NOT_EXPECT == 4

\* sdcard.h (SD SPI-mode command indices and the sector size)
SDCMD_GO_IDLE_STATE == 0
SDCMD_SEND_IF_COND == 8
SDCMD_SEND_CSD == 9
SDCMD_SET_BLOCKLEN == 16
SDCMD_READ_SINGLE_BLOCK == 17
SDCMD_WRITE_BLOCK == 24
SDCMD_SEND_OP_COND == 41
SDCMD_APP_CMD == 55
SDCMD_READ_OCR == 58
SDCMD_CRC_ON_OFF == 59
SD_SECTOR_SIZE == 512

\* attempt budgets and timeouts of the call sites
GO_IDLE_ATTEMPTS == 50
IF_COND_ATTEMPTS == 3
CRC_ON_ATTEMPTS == 3
READ_OCR_ATTEMPTS == 20
OP_COND_ATTEMPTS == 250
OCR_AGAIN_ATTEMPTS == 5
SET_BLOCKLEN_ATTEMPTS == 3
RESPONSE_WINDOW == 8
READ_RESPONSE_POLLS == 16
TOKEN_TIMEOUT_US == 50000
CSD_LENGTH == 16
POWER_UP_TRANSFERS == 10
IF_COND_ARG == 266
POWER_UP_DELAY_US == 1000
RETRY_DELAY_US == 1000

NoRet == 0 - 1          \* marks a void return (sdcard_deinit)

(***************************************************************************)
(* Bit operations on naturals, truncation to the C integer widths.         *)
(***************************************************************************)
bit_and[a \in Nat, b \in Nat] ==
    IF a = 0 \/ b = 0 THEN 0
    ELSE (a % 2) * (b % 2) + 2 * bit_and[a \div 2, b \div 2]

bit_or[a \in Nat, b \in Nat] ==
    IF a = 0 THEN b
    ELSE IF b = 0 THEN a
    ELSE (IF a % 2 = 1 \/ b % 2 = 1 THEN 1 ELSE 0)
         + 2 * bit_or[a \div 2, b \div 2]

bit_xor[a \in Nat, b \in Nat] ==
    IF a = 0 THEN b
    ELSE IF b = 0 THEN a
    ELSE ((a + b) % 2) + 2 * bit_xor[a \div 2, b \div 2]

BitAnd(a, b) == bit_and[a, b]
BitOr(a, b) == bit_or[a, b]
BitXor(a, b) == bit_xor[a, b]

U8(x) == x % 256
U16(x) == x % 65536

(***************************************************************************)
(* uint32_t values are pairs <<high half, low half>> of 16-bit halves.     *)
(***************************************************************************)
W32(n) == << n \div 65536, n % 65536 >>

\* w * m truncated to 32 bits, for a multiplier m below 2^15
Mul32(w, m) ==
    LET low == w[2] * m
    IN  << U16(w[1] * m + low \div 65536), U16(low) >>

\* The digits, base 65536 and most significant first, of the untruncated w * m
MulWide(w, m) ==
    LET low == w[2] * m
        mid == w[1] * m + low \div 65536
    IN  << mid \div 65536, mid % 65536, low % 65536 >>

(***************************************************************************)
(* CRC helpers.                                                            *)
(***************************************************************************)
\* The inner loop of calc_crc7 from its iteration i on.
crc7_shift[crc \in 0..255, i \in 0..8] ==
    IF i = 8 THEN crc
    ELSE crc7_shift[IF BitAnd(crc, 128) # 0
                    THEN U8(BitXor(crc * 2, CRC7_POLY))
                    ELSE U8(crc * 2), i + 1]

\* The eight shifts of the inner loop, for every value of crc.
crc7_byte == [crc \in 0..255 |-> crc7_shift[crc, 0]]

\* A CRC7 returned as the register holds it, without the low bit forced.
calc_crc7_no_stop(data, length) ==
    LET crc[k \in 0..length] ==
            IF k = 0 THEN 0
            ELSE crc7_byte[BitXor(crc[k - 1], data[k])]
    IN  crc[length]

\* crc[k] is the register after k bytes.
calc_crc7(data, length) ==
    LET crc[k \in 0..length] ==
            IF k = 0 THEN 0
            ELSE crc7_byte[BitXor(crc[k - 1], data[k])]
    IN  BitOr(crc[length], 1)

\* The inner loop of calc_crc16 from its iteration i on.
crc16_shift[crc \in 0..65535, i \in 0..8] ==
    IF i = 8 THEN crc
    ELSE crc16_shift[IF BitAnd(crc, 32768) # 0
                     THEN U16(BitXor(crc * 2, CRC16_POLY))
                     ELSE U16(crc * 2), i + 1]

\* run[lo, hi, crc] is the register after the bytes data[lo..hi], in order,
\* starting from crc; the range is halved so that the evaluation depth stays
\* logarithmic in the length.
calc_crc16(data, length) ==
    LET run[lo \in 1..(length + 1), hi \in 0..length, crc \in 0..65535] ==
            IF lo > hi THEN crc
            ELSE IF lo = hi
            THEN crc16_shift[BitXor(crc, data[lo] * 256), 0]
            ELSE run[((lo + hi) \div 2) + 1, hi,
                     run[lo, (lo + hi) \div 2, crc]]
    IN  run[1, length, 0]

(***************************************************************************)
(* Command framing.                                                        *)
(***************************************************************************)
Fill(n, b) == [k \in 1..n |-> b]

populate_buffer(command, arg) ==
    LET head == << BitOr(command, 64),
                   BitAnd(arg[1] \div 256, 255),
                   BitAnd(arg[1], 255),
                   BitAnd(arg[2] \div 256, 255),
                   BitAnd(arg[2], 255) >>
    IN  Append(head, calc_crc7(head, 5))

\* The application-command prefix frame of send_command: buf is zeroed, then
\* buf[0] and buf[5] are set.
app_cmd_frame ==
    LET head == << BitOr(SDCMD_APP_CMD, 64), 0, 0, 0, 0 >>
    IN  Append(head, calc_crc7(head, 5))

\* The 32-bit argument carried by a 6-byte command frame.
FrameArg(f) == << f[2] * 256 + f[3], f[4] * 256 + f[5] >>

(***************************************************************************)
(* The environment: what the card may answer and what callers may pass.    *)
(***************************************************************************)
\* Responses to a command: nothing, R1/R7 idle with the interface-condition
\* echo, R1 illegal-command, and OCR reads (idle; ready with and without the
\* capacity bit).
Responses ==
    { <<>>,
      <<1, 0, 0, 1, 10>>,
      <<5, 0, 0, 0, 0>>,
      <<1, 0, 255, 128, 0>>,
      <<0, 192, 255, 128, 0>>,
      <<0, 128, 255, 128, 0>> }

\* Single bytes seen while polling for a response or a token.
PollBytes == {255, 0, 5}
TokenBytes == {255, 254, 0}

\* R1 answers to the write command, and data-response tokens (accepted,
\* rejected for CRC).
WriteResponses == { <<>>, <<0>>, <<4>> }
DataResponses == { <<>>, <<229>>, <<235>> }

\* Sector payloads: an idle line, and a counting pattern.
DataBlocks ==
    { Fill(SD_SECTOR_SIZE, 255), [k \in 1..SD_SECTOR_SIZE |-> (k - 1) % 256] }

\* Card descriptor registers: byte 14 without protect bits, with the
\* temporary-protect bit, and with only the copy bit.
CsdBlocks ==
    { [k \in 1..CSD_LENGTH |-> IF k = 15 THEN b ELSE 0] : b \in {0, 16, 64} }

\* calc_crc16 of every block of the model, computed once.
Crc16 == [d \in DataBlocks \cup CsdBlocks |-> calc_crc16(d, Len(d))]

BlocksOf(length) == IF length = CSD_LENGTH THEN CsdBlocks ELSE DataBlocks

\* CRC16 trailers the card may send after block d: the right one, and one
\* with a flipped bit.
TrailersOf(d) == { Crc16[d], BitXor(Crc16[d], 1) }

\* Sector indices passed by callers (0, 5 and 2^23).
Sectors == { W32(0), W32(5), <<128, 0>> }

\* Byte k (from 1) of the card's answer: lead idle bytes, the response, then
\* idle bytes.
StreamByte(lead, resp, k) ==
    IF k <= lead THEN 255
    ELSE IF k - lead <= Len(resp) THEN resp[k - lead]
    ELSE 255

Window(lead, resp) == [k \in 1..RESPONSE_WINDOW |-> StreamByte(lead, resp, k)]

\* Offset (from 0) of the first byte of w that is not 0xFF; Len(w) if none.
FirstResponse(w) ==
    LET S == {k \in 1..Len(w) : w[k] # 255}
    IN  IF S = {} THEN Len(w)
        ELSE (CHOOSE k \in S : \A j \in S : k <= j) - 1

\* Value of ret after a scan loop over w: the first byte that is not 0xFF,
\* or the last byte read (0xFF).
ScanRet(w) ==
    IF FirstResponse(w) = Len(w) THEN w[Len(w)] ELSE w[FirstResponse(w) + 1]

timer_from_us(us) == (us * TicksPer50ms) \div TOKEN_TIMEOUT_US
timer_is_before(t1, t2) == t1 < t2

(***************************************************************************)
(* Local state and the bus.                                                *)
(***************************************************************************)
NoLoc ==
    [ buf |-> <<>>, cmd_buf |-> <<>>, data |-> <<>>, ret |-> 0, result |-> 0,
      attempts |-> 0, max_attempts |-> 0, cmd |-> 0, arg |-> W32(0),
      cflags |-> 0, expect |-> 0, length |-> 0, stage |-> 0, sd_ver |-> 0,
      i |-> 0, token |-> 0, site |-> "none", timer |-> 0, endtime |-> 0,
      found |-> 0, crc |-> 0, sends |-> 0, delays |-> 0, sector |-> W32(0) ]

\* Bus events: a write of the chip-select pin, spi_transfer sending bytes,
\* spi_transfer receiving n bytes.
CsEv(v) == << "cs", <<v>> >>
TxEv(bytes) == << "tx", bytes >>
RxEv(n) == << "rx", <<n>> >>

\* udelay(us), listed among the bus events of the step it occurs in.
DelayEv(us) == << "delay", <<us>> >>

\* Level of the chip-select line after the events evs, from level.
LevelAfter(level, evs) ==
    LET S == {j \in 1..Len(evs) : evs[j][1] = "cs"}
    IN  IF S = {} THEN level
        ELSE evs[CHOOSE j \in S : \A k \in S : k <= j][2][1]

Init ==
    /\ flags = 0
    /\ err = 0
    /\ rate = 0
    /\ cs = 1
    /\ pc = "idle"
    /\ op = "none"
    /\ loc = NoLoc
    /\ hw = <<>>
    /\ lastOp = "none"
    /\ lastRet = NoRet
    /\ passed = {}
    /\ touched = FALSE
    /\ ops = 0
    /\ inits = 0

\* A public function is entered and goes on to the card.
Call(o) ==
    /\ pc = "idle"
    /\ ops < MaxOps
    /\ ops' = ops + 1
    /\ inits' = IF o = "init" THEN inits + 1 ELSE inits
    /\ o = "init" => inits < MaxInits

\* A public function is entered and returns v at once.
CallReturn(o, v) ==
    /\ pc = "idle"
    /\ pc' = "idle"
    /\ op' = "none"
    /\ lastOp' = o
    /\ lastRet' = v
    /\ loc' = NoLoc
    /\ hw' = <<>>
    /\ cs' = cs
    /\ touched' = FALSE
    /\ passed' = {}
    /\ UNCHANGED <<ops, inits>>

\* It keeps running after this step.
Running(o) ==
    /\ op' = o
    /\ lastOp' = "none"
    /\ lastRet' = NoRet

\* It returns v to its caller; its locals die.
Return(o, v) ==
    /\ pc' = "idle"
    /\ op' = "none"
    /\ lastOp' = o
    /\ lastRet' = v
    /\ loc' = NoLoc

\* The line and the access mark follow the events of the step.
Bus(evs, first) ==
    /\ hw' = evs
    /\ cs' = LevelAfter(cs, evs)
    /\ touched' = IF first THEN evs # <<>> ELSE (touched \/ evs # <<>>)

(***************************************************************************)
(* send_command                                                            *)
(***************************************************************************)
\* Entry of send_command: spi_prepare, chip-select low, buf zeroed.
send_command_entry(l) == [l EXCEPT !.buf = Fill(RESPONSE_WINDOW, 0)]

\* buf after the response scan of send_command on the window received from
\* a card answering (lead, resp).
send_command_buf(cflags, lead, resp) ==
    LET w == Window(lead, resp)
        i == FirstResponse(w)
        recd == RESPONSE_WINDOW - i
        moved == [k \in 1..RESPONSE_WINDOW |-> IF k <= recd THEN w[k + i] ELSE w[k]]
    IN  IF i = RESPONSE_WINDOW \/ i = 0 THEN w
        ELSE IF BitAnd(cflags, CF_FULL_RESP) # 0
             THEN [k \in 1..RESPONSE_WINDOW |->
                     IF k <= recd THEN moved[k]
                     ELSE StreamByte(lead, resp, RESPONSE_WINDOW + k - recd)]
             ELSE moved

\* Bus events of send_command after its entry: the frame(s) sent ...
send_command_out(command, arg, cflags) ==
    (IF BitAnd(cflags, CF_APP_CMD) # 0 THEN <<TxEv(app_cmd_frame)>> ELSE <<>>)
    \o << TxEv(populate_buffer(command, arg)) >>

\* An end of send_command that leaves chip-select low.
send_command_in_held(cflags, lead, resp) ==
    LET i == FirstResponse(Window(lead, resp))
    IN  << RxEv(RESPONSE_WINDOW) >>
        \o (IF i # RESPONSE_WINDOW /\ i # 0 /\ BitAnd(cflags, CF_FULL_RESP) # 0
            THEN <<RxEv(i)>> ELSE <<>>)

\* ... then the window received, the refill of a shifted full response, and
\* chip-select high.
send_command_in(cflags, lead, resp) ==
    LET i == FirstResponse(Window(lead, resp))
    IN  << RxEv(RESPONSE_WINDOW) >>
        \o (IF i # RESPONSE_WINDOW /\ i # 0 /\ BitAnd(cflags, CF_FULL_RESP) # 0
            THEN <<RxEv(i)>> ELSE <<>>)
        \o << CsEv(1) >>

\* Locals after send_command has returned ret.
send_command_done(l, lead, resp) ==
    [l EXCEPT !.buf = send_command_buf(l.cflags, lead, resp),
              !.ret = ScanRet(Window(lead, resp))]

(***************************************************************************)
(* check_command                                                           *)
(***************************************************************************)
check_command_success(cflags, ret, expect) ==
    IF BitAnd(cflags, CF_NOT_EXPECT) # 0 THEN ret # expect ELSE ret = expect

\* Parameters of a check_command call.
check_command_call(l, command, arg, cflags, expect, attempts) ==
    [l EXCEPT !.cmd = command, !.arg = arg, !.cflags = cflags,
              !.expect = expect, !.attempts = attempts,
              !.max_attempts = attempts, !.sends = 0, !.delays = 0,
              !.result = 0]

\* check_command returns result; its parameters and locals die, the response
\* stays in the caller's buf.
check_command_return(l, result) ==
    [l EXCEPT !.result = result, !.cmd = 0, !.arg = W32(0), !.cflags = 0,
              !.expect = 0, !.attempts = 0, !.max_attempts = 0, !.ret = 0,
              !.sends = 0, !.delays = 0]

\* while (attempts): either send_command is entered (chip-select low), or
\* the loop ends and 0 is returned to the caller at position to.
check_command_loop(l, to) ==
    IF l.attempts # 0
    THEN [pc |-> "send_command",
          loc |-> send_command_entry([l EXCEPT !.sends = l.sends + 1]),
          hw |-> <<CsEv(0)>>]
    ELSE [pc |-> to, loc |-> check_command_return(l, 0), hw |-> <<>>]

\* A retry that delays after every failed attempt, the last one included.
check_command_retry_always(l) ==
    [loc |-> [l EXCEPT !.attempts = U8(l.attempts - 1), !.ret = 0,
                       !.delays = l.delays + 1],
     hw |-> <<DelayEv(RETRY_DELAY_US)>>]

\* A retry that does not count the attempt.
check_command_retry_uncounted(l) ==
    [loc |-> [l EXCEPT !.ret = 0, !.delays = l.delays + 1],
     hw |-> <<DelayEv(RETRY_DELAY_US)>>]

\* attempts--, and the delay before another attempt.
check_command_retry(l) ==
    LET left == U8(l.attempts - 1)
    IN  [loc |-> [l EXCEPT !.attempts = left, !.ret = 0,
                           !.delays = IF left # 0 THEN l.delays + 1 ELSE l.delays],
         hw |-> IF left # 0 THEN <<DelayEv(RETRY_DELAY_US)>> ELSE <<>>]

\* One iteration of the loop, from inside send_command: the exchange with
\* the card, the test of its response, and either the return of 1, or the
\* next iteration up to the entry of send_command, or the return of 0.
check_command_attempt(to) ==
    /\ pc = "send_command"
    /\ op # "deinit"
    /\ LET out == send_command_out(loc.cmd, loc.arg, loc.cflags)
       IN  \E lead \in 0..MaxLead, resp \in Responses :
              LET done == send_command_done(loc, lead, resp)
                  evs == out \o send_command_in(loc.cflags, lead, resp)
                  retry == check_command_retry(done)
                  next == check_command_loop(retry.loc, to)
              IN  IF check_command_success(done.cflags, done.ret, done.expect)
                  THEN /\ pc' = to
                       /\ loc' = check_command_return(done, 1)
                       /\ Bus(evs, FALSE)
                  ELSE /\ pc' = next.pc
                       /\ loc' = next.loc
                       /\ Bus(evs \o retry.hw \o next.hw, FALSE)
    /\ UNCHANGED <<flags, err, rate, op, lastOp, lastRet, passed, ops, inits>>

check_command == check_command_attempt("init_stage")

(***************************************************************************)
(* find_token                                                              *)
(***************************************************************************)
\* Entry of find_token(token, timeout_us), called from site.  Time is counted
\* from the entry of the scan; only differences of timer values matter.
find_token_call(l, token, timeout_us, site) ==
    [l EXCEPT !.token = token, !.site = site, !.timer = 0,
              !.endtime = 0 + timer_from_us(timeout_us), !.found = 0]

\* find_token returns found to its call site; its locals die.  The busy scan
\* that ends read_data_block discards the value.
find_token_return(l, found) ==
    [l EXCEPT !.found = IF l.site = "rdb_busy" THEN 0 ELSE found,
              !.token = 0, !.timer = 0, !.endtime = 0]

\* One iteration of the scan: a byte is clocked in; the timer advances.
find_token_poll ==
    /\ pc = "find_token"
    /\ timer_is_before(loc.timer, loc.endtime)
    /\ \E b \in TokenBytes :
          IF b = loc.token
          THEN /\ loc' = find_token_return(loc, 1)
               /\ pc' = loc.site
          ELSE /\ loc' = [loc EXCEPT !.timer = loc.timer + 1]
               /\ pc' = "find_token"
    /\ Bus(<<RxEv(1)>>, FALSE)
    /\ UNCHANGED <<flags, err, rate, op, lastOp, lastRet, passed, ops, inits>>

\* The deadline has passed.
find_token_timeout ==
    /\ pc = "find_token"
    /\ ~timer_is_before(loc.timer, loc.endtime)
    /\ loc' = find_token_return(loc, 0)
    /\ pc' = loc.site
    /\ Bus(<<>>, FALSE)
    /\ UNCHANGED <<flags, err, rate, op, lastOp, lastRet, passed, ops, inits>>

(***************************************************************************)
(* read_data_block, sdcard_read_sector                                     *)
(***************************************************************************)
\* A translation that passes the index on as it is.
sector_verbatim(f, sector) == sector

\* Byte offset for a standard-capacity card, block index otherwise.
sector_offset(f, sector) ==
    IF BitAnd(f, SDF_HIGH_CAPACITY) = 0
    THEN Mul32(sector, SD_SECTOR_SIZE)
    ELSE sector

\* A guard that returns 0, the value of a protocol failure.
returns_failure == U8(0)

\* The value returned by a guarded call on a device that is not initialized:
\* return -1 from a function returning uint8_t.
not_ready == U8(0 - 1)

read_data_block_call(l, command, arg, length) ==
    [l EXCEPT !.cmd = command, !.arg = arg, !.length = length]

\* Chip-select low, command frame out.  cmd, arg and the frame in cmd_buf
\* are not read again.
read_data_block_command ==
    /\ pc = "read_data_block"
    /\ loc' = [loc EXCEPT !.ret = 0, !.i = 0, !.cmd = 0, !.arg = W32(0),
                          !.sector = W32(0)]
    /\ Bus(<< CsEv(0), TxEv(populate_buffer(loc.cmd, loc.arg)) >>, FALSE)
    /\ pc' = "rdb_poll"
    /\ UNCHANGED <<flags, err, rate, op, lastOp, lastRet, passed, ops, inits>>

\* A test of the response that takes every byte but the idle one for 0.
response_any(b) == IF b = 255 THEN 1 ELSE 0

\* ret after the response polls: 0 stays, anything else becomes 1.
read_data_block_response(b) == IF b # 0 THEN 1 ELSE 0

\* One poll for the response, the byte read going to ret; after the last one
\* the start-token scan begins.
read_data_block_poll ==
    /\ pc = "rdb_poll"
    /\ \E b \in PollBytes :
          IF b # 255 \/ loc.i + 1 = READ_RESPONSE_POLLS
          THEN /\ loc' = find_token_call(
                            [loc EXCEPT !.ret = read_data_block_response(b),
                                        !.i = 0],
                            254, TOKEN_TIMEOUT_US, "rdb_start")
               /\ pc' = "find_token"
               /\ passed' = IF b = 0 THEN passed \cup {"response"} ELSE passed
          ELSE /\ loc' = [loc EXCEPT !.ret = b, !.i = loc.i + 1]
               /\ pc' = "rdb_poll"
               /\ passed' = passed
    /\ Bus(<<RxEv(1)>>, FALSE)
    /\ UNCHANGED <<flags, err, rate, op, lastOp, lastRet, ops, inits>>

\* The start-token scan has returned: the block and its CRC trailer are read
\* whatever happened before, then the busy scan begins.
read_data_block_data ==
    /\ pc = "rdb_start"
    /\ \E d \in BlocksOf(loc.length) : \E c \in TrailersOf(d) :
          loc' = find_token_call(
                    [loc EXCEPT !.ret = IF loc.found = 0 THEN 2 ELSE loc.ret,
                                !.data = d,
                                !.cmd_buf = <<c \div 256, c % 256>> \o Fill(6, 255)],
                    255, TOKEN_TIMEOUT_US, "rdb_busy")
    /\ Bus(<< RxEv(loc.length), RxEv(2) >>, FALSE)
    /\ pc' = "find_token"
    /\ passed' = IF loc.found = 1 THEN passed \cup {"token"} ELSE passed
    /\ UNCHANGED <<flags, err, rate, op, lastOp, lastRet, ops, inits>>

\* A comparison that accepts every trailer.
crc_unchecked(recd_crc, crc) == FALSE

crc_mismatch(recd_crc, crc) == recd_crc # crc

\* An outcome that stores the error bits of this call in place of the set.
read_outcome_overwrite(e, ret, recd_crc, crc) ==
    IF recd_crc # crc THEN [err |-> BitOr(SDE_CRC_ERR, SDE_READ_ERR), ret |-> 0]
    ELSE IF ret > 0 THEN [err |-> SDE_READ_ERR, ret |-> 0]
    ELSE [err |-> e, ret |-> 1]

\* Error bits and return value of read_data_block.
read_data_block_outcome(e, ret, recd_crc, crc) ==
    LET e2 == IF crc_mismatch(recd_crc, crc) THEN BitOr(e, SDE_CRC_ERR) ELSE e
        ret2 == IF crc_mismatch(recd_crc, crc) THEN 3 ELSE ret
    IN  IF ret2 > 0
        THEN [err |-> BitOr(e2, SDE_READ_ERR), ret |-> 0]
        ELSE [err |-> e2, ret |-> 1]

\* The busy scan has returned: chip-select high, CRC check, return to
\* sdcard_read_sector (which returns the value) or sdcard_check_write_protect.
read_data_block_finish ==
    /\ pc = "rdb_busy"
    /\ LET recd_crc == BitOr(loc.cmd_buf[1] * 256, loc.cmd_buf[2])
           out == read_data_block_outcome(err, loc.ret, recd_crc, Crc16[loc.data])
       IN  /\ err' = out.err
           /\ passed' = IF recd_crc = Crc16[loc.data]
                        THEN passed \cup {"crc"} ELSE passed
           /\ IF op = "read"
              THEN Return("read", out.ret)
              ELSE /\ pc' = "init_stage"
                   /\ loc' = [NoLoc EXCEPT !.stage = loc.stage,
                                           !.data = loc.data,
                                           !.result = out.ret]
                   /\ UNCHANGED <<op, lastOp, lastRet>>
    /\ Bus(<<CsEv(1)>>, FALSE)
    /\ UNCHANGED <<flags, rate, ops, inits>>

sdcard_read_sector(sector) ==
    /\ IF BitAnd(flags, SDF_INITIALIZED) = 0
       THEN CallReturn("read", not_ready)
       ELSE /\ Call("read")
            /\ Running("read")
            /\ pc' = "read_data_block"
            /\ loc' = read_data_block_call(
                         [NoLoc EXCEPT !.sector = sector],
                         SDCMD_READ_SINGLE_BLOCK, sector_offset(flags, sector),
                         SD_SECTOR_SIZE)
            /\ Bus(<<>>, TRUE)
            /\ passed' = {}
    /\ UNCHANGED <<flags, err, rate>>

(***************************************************************************)
(* sdcard_write_sector                                                     *)
(***************************************************************************)
\* Guard, address translation, CRC, command frame out, response window in and
\* scanned into ret.
sdcard_write_sector(wbuf, sector) ==
    /\ IF BitAnd(flags, SDF_INITIALIZED) = 0
       THEN CallReturn("write", not_ready)
       ELSE /\ Call("write")
            /\ Running("write")
            /\ pc' = "write_resp"
            /\ \E lead \in 0..MaxLead, resp \in WriteResponses :
                  /\ loc' = [NoLoc EXCEPT
                                !.sector = sector,
                                !.data = wbuf,
                                !.crc = Crc16[wbuf],
                                !.ret = ScanRet(Window(lead, resp))]
                  /\ passed' = IF ScanRet(Window(lead, resp)) # 255
                               THEN {"response"} ELSE {}
            /\ Bus(<< CsEv(0),
                      TxEv(populate_buffer(SDCMD_WRITE_BLOCK,
                                           sector_offset(flags, sector))),
                      RxEv(RESPONSE_WINDOW) >>, TRUE)
    /\ UNCHANGED <<flags, err, rate>>

\* No response to the write command.
sdcard_write_sector_abort ==
    /\ pc = "write_resp"
    /\ loc.ret = 255
    /\ Bus(<<CsEv(1)>>, FALSE)
    /\ err' = BitOr(err, SDE_WRITE_ERR)
    /\ Return("write", 0)
    /\ UNCHANGED <<flags, rate, passed, ops, inits>>

\* A test of the data response that accepts every byte but the idle one.
data_response_any(token) == IF token # 255 THEN 0 ELSE 2

\* ret after the data-response scan.
data_response_ret(token) == IF BitAnd(token, 31) = 5 THEN 0 ELSE 2

\* Start token, payload and CRC out; data response in; busy scan begins.
sdcard_write_sector_data ==
    /\ pc = "write_resp"
    /\ loc.ret # 255
    /\ \E lead \in 0..MaxLead, resp \in DataResponses :
          /\ loc' = find_token_call(
                       [NoLoc EXCEPT
                           !.ret = data_response_ret(ScanRet(Window(lead, resp)))],
                       255, TOKEN_TIMEOUT_US, "write_busy")
          /\ passed' = IF BitAnd(ScanRet(Window(lead, resp)), 31) = 5
                       THEN passed \cup {"accepted"} ELSE passed
    /\ Bus(<< TxEv(<<254>>), TxEv(loc.data),
              TxEv(<<BitAnd(loc.crc \div 256, 255), BitAnd(loc.crc, 255)>>),
              RxEv(RESPONSE_WINDOW) >>, FALSE)
    /\ pc' = "find_token"
    /\ UNCHANGED <<flags, err, rate, op, lastOp, lastRet, ops, inits>>

\* An outcome that reports a failed write as a read error.
write_outcome_as_read(e, ret, found) ==
    IF found = 0 \/ ret > 0
    THEN [err |-> BitOr(e, SDE_READ_ERR), ret |-> 0]
    ELSE [err |-> e, ret |-> 1]

\* Error bits and return value of sdcard_write_sector after the busy scan.
write_sector_outcome(e, ret, found) ==
    LET ret2 == IF found = 0 THEN ret + 1 ELSE ret
    IN  IF ret2 > 0
        THEN [err |-> BitOr(e, SDE_WRITE_ERR), ret |-> 0]
        ELSE [err |-> e, ret |-> 1]

\* The busy scan has returned: chip-select high, result.
sdcard_write_sector_finish ==
    /\ pc = "write_busy"
    /\ Bus(<<CsEv(1)>>, FALSE)
    /\ err' = write_sector_outcome(err, loc.ret, loc.found).err
    /\ Return("write", write_sector_outcome(err, loc.ret, loc.found).ret)
    /\ passed' = IF loc.found = 1 THEN passed \cup {"released"} ELSE passed
    /\ UNCHANGED <<flags, rate, ops, inits>>

(***************************************************************************)
(* sdcard_check_write_protect, sdcard_init                                 *)
(***************************************************************************)
\* A check that looks at the result of the CSD read only.
check_csd_read_only(read_ok, csd_buf) == IF read_ok = 0 THEN 0 ELSE 1

\* Result of sdcard_check_write_protect given the result of the CSD read
\* and the bytes read.
sdcard_check_write_protect(read_ok, csd_buf) ==
    IF read_ok = 0 THEN 0
    ELSE IF BitAnd(csd_buf[15], 48) # 0 THEN 0
    ELSE 1

\* Version classification from the interface-condition response:
\* 1, 2, or 0 when the response matches neither.
sd_version(buf) ==
    IF BitAnd(buf[1], 4) # 0 THEN 1
    ELSE IF buf[1] = 1 /\ buf[4] = 1 /\ buf[5] = 10 THEN 2
    ELSE 0

voltage_ok(buf) == BitAnd(buf[3], 48) = 48

op_cond_arg(sd_ver) == IF sd_ver = 1 THEN W32(0) ELSE <<16384, 0>>

\* A failure that reports every stage as SDE_OTHER_ERR.
init_fail_other(e) ==
    /\ err' = BitOr(err, SDE_OTHER_ERR)
    /\ Return("init", 0)
    /\ Bus(<<>>, FALSE)
    /\ UNCHANGED <<flags, rate, passed>>

\* sdcard_init fails with error bit e.
init_fail(e) ==
    /\ err' = BitOr(err, e)
    /\ Return("init", 0)
    /\ Bus(<<>>, FALSE)
    /\ UNCHANGED <<flags, rate, passed>>

\* Stage done has passed; sdcard_init goes on to its next check_command,
\* with flags f.
init_next(done, f, l) ==
    /\ passed' = passed \cup {done}
    /\ flags' = f
    /\ pc' = check_command_loop(l, "init_stage").pc
    /\ loc' = check_command_loop(l, "init_stage").loc
    /\ Bus(check_command_loop(l, "init_stage").hw, FALSE)
    /\ UNCHANGED <<err, rate, op, lastOp, lastRet>>

\* Pin and bus set up, power-up clocks with chip-select high, go-idle called.
sdcard_init ==
    /\ Call("init")
    /\ Running("init")
    /\ rate' = SPI_INIT_RATE
    /\ passed' = {}
    /\ LET l == check_command_call(
                   [NoLoc EXCEPT !.buf = Fill(RESPONSE_WINDOW, 255), !.stage = 1],
                   SDCMD_GO_IDLE_STATE, W32(0), 0, 1, GO_IDLE_ATTEMPTS)
           next == check_command_loop(l, "init_stage")
       IN  /\ pc' = next.pc
           /\ loc' = next.loc
           /\ Bus(<<CsEv(1), DelayEv(POWER_UP_DELAY_US)>>
                  \o [k \in 1..POWER_UP_TRANSFERS |-> TxEv(Fill(RESPONSE_WINDOW, 255))]
                  \o next.hw, TRUE)
    /\ UNCHANGED <<flags, err>>

\* go-idle has returned; interface-condition probe.
sdcard_init_stage1 ==
    /\ pc = "init_stage" /\ loc.stage = 1
    /\ IF loc.result = 0
       THEN init_fail(SDE_NO_IDLE)
       ELSE init_next("go_idle", flags, check_command_call(
                [loc EXCEPT !.stage = 2, !.sd_ver = 0],
                SDCMD_SEND_IF_COND, W32(IF_COND_ARG),
                BitOr(CF_FULL_RESP, CF_NOT_EXPECT), 255, IF_COND_ATTEMPTS))
    /\ UNCHANGED <<ops, inits>>

\* The probe has returned; version classification; CRC enable.
sdcard_init_stage2 ==
    /\ pc = "init_stage" /\ loc.stage = 2
    /\ IF loc.result = 0 \/ sd_version(loc.buf) = 0
       THEN init_fail(SDE_IF_COND_ERR)
       ELSE init_next("if_cond", flags, check_command_call(
                [loc EXCEPT !.stage = 3, !.sd_ver = sd_version(loc.buf)],
                SDCMD_CRC_ON_OFF, W32(1), 0, 1, CRC_ON_ATTEMPTS))
    /\ UNCHANGED <<ops, inits>>

\* CRC enable has returned; OCR read.
sdcard_init_stage3 ==
    /\ pc = "init_stage" /\ loc.stage = 3
    /\ IF loc.result = 0
       THEN init_fail(SDE_CRC_ERR)
       ELSE init_next("crc_on", flags, check_command_call(
                [loc EXCEPT !.stage = 4],
                SDCMD_READ_OCR, W32(0), CF_FULL_RESP, 1, READ_OCR_ATTEMPTS))
    /\ UNCHANGED <<ops, inits>>

\* The OCR read has returned; voltage window; operation condition.
sdcard_init_stage4 ==
    /\ pc = "init_stage" /\ loc.stage = 4
    /\ IF loc.result = 0 \/ ~voltage_ok(loc.buf)
       THEN init_fail(SDE_OCR_ERR)
       ELSE init_next("ocr", flags, check_command_call(
                [loc EXCEPT !.stage = 5],
                SDCMD_SEND_OP_COND, op_cond_arg(loc.sd_ver), CF_APP_CMD, 0,
                OP_COND_ATTEMPTS))
    /\ UNCHANGED <<ops, inits>>

\* Operation condition has returned; OCR again for version 2, else block
\* length.  sd_ver is not read again.
sdcard_init_stage5 ==
    /\ pc = "init_stage" /\ loc.stage = 5
    /\ IF loc.result = 0
       THEN init_fail(SDE_OP_COND_ERR)
       ELSE IF loc.sd_ver = 2
       THEN init_next("op_cond", flags, check_command_call(
                [loc EXCEPT !.stage = 6, !.sd_ver = 0],
                SDCMD_READ_OCR, W32(0), CF_FULL_RESP, 0, OCR_AGAIN_ATTEMPTS))
       ELSE init_next("op_cond", flags, check_command_call(
                [loc EXCEPT !.stage = 7, !.sd_ver = 0],
                SDCMD_SET_BLOCKLEN, W32(SD_SECTOR_SIZE), 0, 0,
                SET_BLOCKLEN_ATTEMPTS))
    /\ UNCHANGED <<ops, inits>>

\* flags after the second OCR read.
capacity_flags(f, buf) ==
    IF BitAnd(buf[2], 64) # 0 THEN BitOr(f, SDF_HIGH_CAPACITY) ELSE f

\* The second OCR read has returned; capacity bit; block length.
sdcard_init_stage6 ==
    /\ pc = "init_stage" /\ loc.stage = 6
    /\ IF loc.result = 0
       THEN init_fail(SDE_OCR_ERR)
       ELSE init_next("ocr_again", capacity_flags(flags, loc.buf), check_command_call(
                [loc EXCEPT !.stage = 7],
                SDCMD_SET_BLOCKLEN, W32(SD_SECTOR_SIZE), 0, 0,
                SET_BLOCKLEN_ATTEMPTS))
    /\ UNCHANGED <<ops, inits>>

\* Block length has returned; the CSD read of sdcard_check_write_protect,
\* into a buffer of its own.
sdcard_init_stage7 ==
    /\ pc = "init_stage" /\ loc.stage = 7
    /\ IF loc.result = 0
       THEN init_fail(SDE_OTHER_ERR)
       ELSE /\ passed' = passed \cup {"blocklen"}
            /\ pc' = "read_data_block"
            /\ loc' = read_data_block_call([NoLoc EXCEPT !.stage = 8],
                                           SDCMD_SEND_CSD, W32(0), CSD_LENGTH)
            /\ Bus(<<>>, FALSE)
            /\ UNCHANGED <<flags, err, rate, op, lastOp, lastRet>>
    /\ UNCHANGED <<ops, inits>>

\* A finish that re-arms sdcard_deinit when sdcard_init succeeds.
init_finish_rearm(f, r, wp) ==
    IF wp = 0
    THEN [flags |-> BitOr(f, SDF_WRITE_PROTECTED), rate |-> r, ret |-> 0]
    ELSE [flags |-> BitOr(BitAnd(f, 255 - SDF_DEINIT), SDF_INITIALIZED),
          rate |-> SPI_XFER_RATE, ret |-> 1]

\* A finish that marks the device initialized before looking at wp.
init_finish_eager(f, r, wp) ==
    [flags |-> BitOr(BitOr(f, SDF_INITIALIZED),
                     IF wp = 0 THEN SDF_WRITE_PROTECTED ELSE 0),
     rate |-> SPI_XFER_RATE, ret |-> IF wp = 0 THEN 0 ELSE 1]

\* flags, bus clock and return value of sdcard_init after the write-protect
\* check returned wp.
init_finish(f, r, wp) ==
    IF wp = 0
    THEN [flags |-> BitOr(f, SDF_WRITE_PROTECTED), rate |-> r, ret |-> 0]
    ELSE [flags |-> BitOr(f, SDF_INITIALIZED), rate |-> SPI_XFER_RATE, ret |-> 1]

\* The CSD read has returned.
sdcard_init_stage8 ==
    /\ pc = "init_stage" /\ loc.stage = 8
    /\ LET wp == sdcard_check_write_protect(loc.result, loc.data)
           fin == init_finish(flags, rate, wp)
       IN  /\ flags' = fin.flags
           /\ rate' = fin.rate
           /\ passed' = IF wp = 0 THEN passed ELSE passed \cup {"write_protect"}
           /\ Return("init", fin.ret)
    /\ Bus(<<>>, FALSE)
    /\ UNCHANGED <<err, ops, inits>>

(***************************************************************************)
(* sdcard_deinit                                                           *)
(***************************************************************************)
\* A guard that never holds.
deinit_unguarded(f) == FALSE

deinit_guard(f) == BitAnd(f, SDF_DEINIT) # 0

\* The pin and bus handles of sd_spi are set by sdcard_init; sdcard_deinit is
\* called only once they are.  Guard, flag, entry of the first send_command.
sdcard_deinit ==
    /\ rate # 0
    /\ IF deinit_guard(flags)
       THEN /\ CallReturn("deinit", NoRet)
            /\ flags' = flags
       ELSE /\ Call("deinit")
            /\ flags' = BitOr(flags, SDF_DEINIT)
            /\ Running("deinit")
            /\ pc' = "send_command"
            /\ loc' = send_command_entry(
                         [NoLoc EXCEPT !.stage = 1, !.cmd = SDCMD_GO_IDLE_STATE,
                                       !.arg = W32(0), !.cflags = 0])
            /\ Bus(<<CsEv(0)>>, TRUE)
            /\ passed' = {}
    /\ UNCHANGED <<err, rate>>

\* A send_command of sdcard_deinit: the exchange, its result ignored; then
\* the entry of the second send_command, or the return.
sdcard_deinit_command ==
    /\ pc = "send_command"
    /\ op = "deinit"
    /\ LET out == send_command_out(loc.cmd, loc.arg, loc.cflags)
       IN  \E lead \in 0..MaxLead, resp \in Responses :
              LET done == send_command_done(loc, lead, resp)
                  evs == out \o send_command_in(loc.cflags, lead, resp)
              IN  IF loc.stage = 1
                  THEN /\ pc' = "send_command"
                       /\ loc' = send_command_entry(
                                    [done EXCEPT !.stage = 2, !.ret = 0,
                                                 !.cmd = SDCMD_CRC_ON_OFF,
                                                 !.arg = W32(0), !.cflags = 0])
                       /\ Bus(evs \o <<CsEv(0)>>, FALSE)
                       /\ UNCHANGED <<op, lastOp, lastRet>>
                  ELSE /\ Return("deinit", NoRet)
                       /\ Bus(evs, FALSE)
    /\ UNCHANGED <<flags, err, rate, passed, ops, inits>>

(***************************************************************************)
(* Diagnostic accessor for the accumulated error set.                      *)
(***************************************************************************)
sdcard_report_errors ==
    /\ CallReturn("errors", err)
    /\ UNCHANGED <<flags, err, rate>>

(***************************************************************************)
(* The driver: one execution context, public calls made one at a time.     *)
(***************************************************************************)
Next ==
    \/ sdcard_init
    \/ sdcard_init_stage1
    \/ sdcard_init_stage2
    \/ sdcard_init_stage3
    \/ sdcard_init_stage4
    \/ sdcard_init_stage5
    \/ sdcard_init_stage6
    \/ sdcard_init_stage7
    \/ sdcard_init_stage8
    \/ check_command
    \/ find_token_poll
    \/ find_token_timeout
    \/ read_data_block_command
    \/ read_data_block_poll
    \/ read_data_block_data
    \/ read_data_block_finish
    \/ \E sector \in Sectors : sdcard_read_sector(sector)
    \/ \E wbuf \in DataBlocks, sector \in Sectors : sdcard_write_sector(wbuf, sector)
    \/ sdcard_write_sector_abort
    \/ sdcard_write_sector_data
    \/ sdcard_write_sector_finish
    \/ sdcard_deinit
    \/ sdcard_deinit_command
    \/ sdcard_report_errors

Spec == Init /\ [][Next]_vars

(***************************************************************************)
(* The same driver with its execution context running: a call that has     *)
(* been entered keeps executing (every spi_transfer returns, the timer      *)
(* advances with every poll); the caller is free to call or not.            *)
(***************************************************************************)
Proceed ==
    \/ sdcard_init_stage1
    \/ sdcard_init_stage2
    \/ sdcard_init_stage3
    \/ sdcard_init_stage4
    \/ sdcard_init_stage5
    \/ sdcard_init_stage6
    \/ sdcard_init_stage7
    \/ sdcard_init_stage8
    \/ find_token_poll
    \/ find_token_timeout
    \/ read_data_block_command
    \/ read_data_block_poll
    \/ read_data_block_data
    \/ read_data_block_finish
    \/ sdcard_write_sector_abort
    \/ sdcard_write_sector_data
    \/ sdcard_write_sector_finish
    \/ sdcard_deinit_command

\* Weak fairness of check_command, written with its enabling condition: the
\* step is possible exactly inside a send_command of sdcard_init.
check_command_fair ==
    \/ []<>(~(pc = "send_command" /\ op # "deinit"))
    \/ []<><<check_command>>_vars

SpecLive == Init /\ [][Next]_vars /\ WF_vars(Proceed) /\ check_command_fair

(***************************************************************************)
(* check_command on its own: every attempt budget up to MaxAttempts, both  *)
(* success predicates, with and without the application-command prefix.    *)
(***************************************************************************)
MaxAttempts == 4

RetryFlags == { 0, CF_NOT_EXPECT, BitOr(CF_FULL_RESP, CF_NOT_EXPECT), CF_APP_CMD }
RetryExpects == { 0, 1, 255 }

\* check_command has been called and is inside its first send_command.
InitRetry ==
    /\ flags = 0
    /\ err = 0
    /\ rate = SPI_INIT_RATE
    /\ op = "check_command"
    /\ lastOp = "none"
    /\ lastRet = NoRet
    /\ passed = {}
    /\ touched = TRUE
    /\ ops = 0
    /\ inits = 0
    /\ \E attempts \in 1..MaxAttempts, cflags \in RetryFlags,
          expect \in RetryExpects :
          LET l == check_command_call(NoLoc, SDCMD_READ_OCR, W32(0), cflags,
                                      expect, attempts)
              first == check_command_loop(l, "check_command_done")
          IN  /\ pc = first.pc
              /\ loc = first.loc
              /\ hw = first.hw
              /\ cs = LevelAfter(1, first.hw)

check_command_alone == check_command_attempt("check_command_done")

NextRetry == check_command_alone

SpecRetry == InitRetry /\ [][NextRetry]_vars

(***************************************************************************)
(* Command framing on its own: populate_buffer and the transfer of the     *)
(* frame, for every 6-bit command index and a set of arguments.            *)
(***************************************************************************)
FrameCommands == 0..63

FrameArgs ==
    { W32(0), W32(1), W32(IF_COND_ARG), W32(SD_SECTOR_SIZE), W32(2560),
      <<16384, 0>>, <<43981, 4660>>, <<65535, 65535>> }

\* send_command has been entered with (command, arg) and has not framed it.
InitFrame ==
    /\ flags = 0
    /\ err = 0
    /\ rate = SPI_INIT_RATE
    /\ cs = 0
    /\ pc = "populate_buffer"
    /\ op = "send_command"
    /\ hw = <<CsEv(0)>>
    /\ lastOp = "none"
    /\ lastRet = NoRet
    /\ passed = {}
    /\ touched = TRUE
    /\ ops = 0
    /\ inits = 0
    /\ \E command \in FrameCommands, arg \in FrameArgs :
          loc = [NoLoc EXCEPT !.cmd = command, !.arg = arg]

\* populate_buffer(command, arg, buf), then the transfer of the six bytes.
send_command_frame ==
    /\ pc = "populate_buffer"
    /\ loc' = [loc EXCEPT !.buf = populate_buffer(loc.cmd, loc.arg)]
    /\ Bus(<<TxEv(populate_buffer(loc.cmd, loc.arg))>>, FALSE)
    /\ pc' = "frame_sent"
    /\ UNCHANGED <<flags, err, rate, op, lastOp, lastRet, passed, ops, inits>>

NextFrame == send_command_frame

SpecFrame == InitFrame /\ [][NextFrame]_vars

(***************************************************************************)
(* Properties.                                                             *)
(***************************************************************************)
\* The step is the entry of public function o.
CallStep(o) == pc = "idle" /\ (op' = o \/ (pc' = "idle" /\ lastOp' = o))

HasFlag(f, bit) == BitAnd(f, bit) # 0

\* C1: a call of sdcard_read_sector or sdcard_write_sector while Initialized
\* is unset returns at once the not-ready value 255, which is neither 0
\* (protocol failure) nor 1 (success); the call writes no chip-select level,
\* makes no transfer, and leaves flags and err as they were.
C1_NotReady ==
    [][ \A o \in {"read", "write"} :
           (CallStep(o) /\ ~HasFlag(flags, SDF_INITIALIZED)) =>
              /\ pc' = "idle" /\ lastOp' = o
              /\ lastRet' = 255 /\ lastRet' \notin {0, 1}
              /\ hw' = <<>> /\ ~touched' /\ cs' = cs
              /\ flags' = flags /\ err' = err ]_vars

\* A write refused after an sdcard_init that failed.
C1_Witness ==
    /\ lastOp = "write" /\ lastRet = 255
    /\ ~HasFlag(flags, SDF_INITIALIZED) /\ err # 0
    /\ hw = <<>> /\ ~touched /\ cs = 1

\* Number of events e among evs.
Count(evs, e) == Cardinality({j \in 1..Len(evs) : evs[j] = e})

\* Positions of the spi_transfer events among evs.
Transfers(evs) == {j \in 1..Len(evs) : evs[j][1] \in {"tx", "rx"}}

\* The step returns at once and does nothing else.
NoOpStep ==
    /\ pc' = "idle" /\ hw' = <<>> /\ ~touched' /\ cs' = cs
    /\ flags' = flags /\ err' = err /\ rate' = rate

\* C2: on an initialized device, when the CRC16 trailer received by a
\* sdcard_read_sector call differs from calc_crc16 of the 512 bytes received,
\* the call returns 0 and SDE_CRC_ERR is set in err, whatever the command
\* response and the start-token scan gave (response 0 and token found
\* included).
C2_CrcMismatchFails ==
    [][ ( /\ pc = "rdb_busy" /\ op = "read"
          /\ HasFlag(flags, SDF_INITIALIZED)
          /\ Len(loc.data) = SD_SECTOR_SIZE
          /\ loc.cmd_buf[1] * 256 + loc.cmd_buf[2] # Crc16[loc.data] ) =>
             /\ pc' = "idle" /\ lastOp' = "read" /\ lastRet' = 0
             /\ HasFlag(err', SDE_CRC_ERR) ]_vars

\* A read that got response 0 and the start token, and failed on the CRC
\* alone, after an sdcard_init without errors.
C2_Witness ==
    /\ lastOp = "read" /\ lastRet = 0
    /\ {"response", "token"} \subseteq passed /\ "crc" \notin passed
    /\ ops = 2
    /\ err = BitOr(SDE_CRC_ERR, SDE_READ_ERR)

\* C3: when stages 1 to 7 of sdcard_init have succeeded and the CSD register
\* read in stage 8 has a nonzero protect field (byte 14 masked with 0x30),
\* sdcard_init returns 0 and sets SDF_WRITE_PROTECTED; it does not set
\* SDF_INITIALIZED in that call and the bus clock stays at SPI_INIT_RATE.
C3_WriteProtectedFails ==
    [][ ( /\ pc = "init_stage" /\ loc.stage = 8 /\ loc.result = 1
          /\ BitAnd(loc.data[15], 48) # 0 ) =>
             /\ {"go_idle", "if_cond", "crc_on", "ocr", "op_cond", "blocklen"}
                   \subseteq passed
             /\ pc' = "idle" /\ lastOp' = "init" /\ lastRet' = 0
             /\ HasFlag(flags', SDF_WRITE_PROTECTED)
             /\ HasFlag(flags', SDF_INITIALIZED) = HasFlag(flags, SDF_INITIALIZED)
             /\ rate = SPI_INIT_RATE /\ rate' = SPI_INIT_RATE ]_vars

\* The first sdcard_init, on a version-2 card, failed after a CSD read that
\* succeeded.
C3_Witness ==
    /\ lastOp = "init" /\ lastRet = 0 /\ inits = 1
    /\ {"blocklen", "ocr_again", "response", "token", "crc"} \subseteq passed
    /\ "write_protect" \notin passed
    /\ HasFlag(flags, SDF_WRITE_PROTECTED) /\ ~HasFlag(flags, SDF_INITIALIZED)
    /\ rate = SPI_INIT_RATE /\ err = 0

\* C4 as stated: of two consecutive sdcard_deinit calls the first performs the
\* command exchange and the second does nothing.  Another sdcard_deinit call
\* can follow any call that has returned, so every call that has returned is
\* the first of two.
C4_FirstOfTwoExchanges ==
    /\ []((pc = "idle" /\ lastOp = "deinit") => touched)
    /\ [][ (CallStep("deinit") /\ lastOp = "deinit") => NoOpStep ]_vars

\* C4, amended: a sdcard_deinit call made while SDF_DEINIT is set returns at
\* once: no chip-select write, no transfer, flags and err unchanged.  A call
\* made while it is unset sets it and sends go-idle, then CRC-off, once each,
\* with chip-select asserted around each, and leaves err unchanged.  So the
\* second of two consecutive calls always does nothing, and the first performs
\* the exchange exactly when SDF_DEINIT was unset before it.
C4_DeinitOnce ==
    /\ [](pc = "idle" /\ lastOp = "deinit" => HasFlag(flags, SDF_DEINIT))
    /\ [][ CallStep("deinit") =>
              IF HasFlag(flags, SDF_DEINIT)
              THEN NoOpStep
              ELSE /\ flags' = BitOr(flags, SDF_DEINIT) /\ err' = err
                   /\ pc' = "send_command" /\ loc'.stage = 1
                   /\ hw' = <<CsEv(0)>> ]_vars
    /\ [][ (pc = "send_command" /\ op = "deinit") =>
              /\ cs = 0
              /\ hw'[1] = TxEv(populate_buffer(
                             IF loc.stage = 1 THEN SDCMD_GO_IDLE_STATE
                             ELSE SDCMD_CRC_ON_OFF, W32(0)))
              /\ Cardinality({j \in Transfers(hw') : hw'[j][1] = "tx"}) = 1
              /\ Count(hw', CsEv(1)) = 1
              /\ flags' = flags /\ err' = err
              /\ IF loc.stage = 1
                 THEN /\ pc' = "send_command" /\ op' = "deinit"
                      /\ loc'.stage = 2 /\ hw'[Len(hw')] = CsEv(0)
                 ELSE /\ loc.stage = 2
                      /\ pc' = "idle" /\ lastOp' = "deinit"
                      /\ hw'[Len(hw')] = CsEv(1) ]_vars
    /\ [][ (CallStep("deinit") /\ lastOp = "deinit") => NoOpStep ]_vars

\* A sdcard_deinit call that found SDF_DEINIT set and did nothing.
C4_Witness ==
    /\ lastOp = "deinit" /\ ~touched /\ hw = <<>>
    /\ HasFlag(flags, SDF_DEINIT) /\ cs = 1

\* The commands completed by the events evs (each ends with chip-select high)
\* and the commands entered.
Completed(evs) == Count(evs, CsEv(1))
Entered(evs) == Count(evs, CsEv(0))
Delays(evs) == Count(evs, DelayEv(RETRY_DELAY_US))

\* C5: a check_command call with max_attempts >= 1 is in its k-th
\* send_command after k - 1 failed attempts and k - 1 delays of 1000 us.  An
\* attempt whose response satisfies the predicate (equal to expect, or
\* different from it under CF_NOT_EXPECT) returns 1 with no further delay;
\* a failed attempt that is not the last is followed by exactly one delay and
\* the next send_command; the failed attempt number max_attempts is followed
\* by no delay and the return of 0.
C5_RetryPolicy ==
    /\ [](pc = "send_command" =>
             /\ loc.max_attempts >= 1
             /\ loc.sends = loc.max_attempts - loc.attempts + 1
             /\ loc.sends <= loc.max_attempts
             /\ loc.delays = loc.sends - 1)
    /\ [][ pc = "send_command" =>
              /\ Completed(hw') = 1
              /\ IF pc' = "send_command"
                 THEN /\ loc.sends < loc.max_attempts
                      /\ loc'.sends = loc.sends + 1
                      /\ loc'.delays = loc.delays + 1
                      /\ Delays(hw') = 1 /\ Entered(hw') = 1
                      /\ hw'[Len(hw') - 2] = CsEv(1)
                      /\ hw'[Len(hw') - 1] = DelayEv(RETRY_DELAY_US)
                      /\ hw'[Len(hw')] = CsEv(0)
                 ELSE /\ pc' = "check_command_done"
                      /\ Delays(hw') = 0 /\ Entered(hw') = 0
                      /\ IF check_command_success(loc.cflags, loc'.buf[1],
                                                  loc.expect)
                         THEN loc'.result = 1
                         ELSE /\ loc'.result = 0
                              /\ loc.sends = loc.max_attempts
                              /\ loc.delays = loc.max_attempts - 1 ]_vars

\* check_command has returned 0 after its last attempt, with no delay after
\* it.
C5_Witness ==
    /\ pc = "check_command_done" /\ loc.result = 0
    /\ Completed(hw) = 1 /\ Delays(hw) = 0
    /\ hw[Len(hw)] = CsEv(1)

\* The frame argument arg is the translation of index sector under flags f:
\* index * 512, as a number, when SDF_HIGH_CAPACITY is unset, else the index.
IsTranslation(f, sector, arg) ==
    IF HasFlag(f, SDF_HIGH_CAPACITY) THEN arg = sector
    ELSE MulWide(sector, SD_SECTOR_SIZE) = <<0>> \o arg

\* The same with the product truncated to 32 bits.
IsTranslation32(f, sector, arg) ==
    IF HasFlag(f, SDF_HIGH_CAPACITY) THEN arg = sector
    ELSE SubSeq(MulWide(sector, SD_SECTOR_SIZE), 2, 3) = arg

\* C6 as stated: on an initialized device the argument of the command frame
\* sent by sdcard_write_sector and by sdcard_read_sector is index * 512 when
\* SDF_HIGH_CAPACITY is unset and the index when it is set, for every index.
C6_IndexTimes512 ==
    [][ /\ (pc = "idle" /\ op' = "write") =>
              IsTranslation(flags, loc'.sector, FrameArg(hw'[2][2]))
        /\ (pc = "read_data_block" /\ op = "read") =>
              IsTranslation(flags, loc.sector, FrameArg(hw'[2][2])) ]_vars

\* C6, what the code computes: the argument is the low 32 bits of
\* index * 512 when SDF_HIGH_CAPACITY is unset and the index when it is set,
\* the same for both calls; index 5 gives 2560 and 5.
C6_IndexTimes512Mod32 ==
    [][ /\ (pc = "idle" /\ op' = "write") =>
              /\ hw'[2][1] = "tx" /\ hw'[2][2][1] = SDCMD_WRITE_BLOCK + 64
              /\ IsTranslation32(flags, loc'.sector, FrameArg(hw'[2][2]))
              /\ loc'.sector = W32(5) =>
                    FrameArg(hw'[2][2]) =
                       IF HasFlag(flags, SDF_HIGH_CAPACITY) THEN W32(5)
                       ELSE W32(2560)
        /\ (pc = "read_data_block" /\ op = "read") =>
              /\ hw'[2][1] = "tx" /\ hw'[2][2][1] = SDCMD_READ_SINGLE_BLOCK + 64
              /\ IsTranslation32(flags, loc.sector, FrameArg(hw'[2][2]))
              /\ loc.sector = W32(5) =>
                    FrameArg(hw'[2][2]) =
                       IF HasFlag(flags, SDF_HIGH_CAPACITY) THEN W32(5)
                       ELSE W32(2560) ]_vars

\* A write of sector 2^23 on a standard-capacity card has sent argument 0.
C6_Witness ==
    /\ pc = "write_resp" /\ op = "write"
    /\ loc.sector = <<128, 0>> /\ ~HasFlag(flags, SDF_HIGH_CAPACITY)
    /\ FrameArg(hw[2][2]) = W32(0)

\* The stages every successful sdcard_init passes.
InitStages ==
    {"go_idle", "if_cond", "crc_on", "ocr", "op_cond", "blocklen",
     "write_protect"}

\* C7: sdcard_init returns 1 exactly when every stage of the call succeeded:
\* go-idle, the interface-condition probe with the version classification,
\* CRC enable, the OCR read with the voltage window, operation condition, the
\* second OCR read on a version-2 card, block length, and the write-protect
\* check with its CSD read.  SDF_INITIALIZED is newly set, and the bus clock
\* raised from SPI_INIT_RATE to SPI_XFER_RATE, only in the step that returns
\* 1, which comes after the write-protect check has passed.
C7_InitAllStages ==
    /\ []((pc = "idle" /\ lastOp = "init") =>
             /\ lastRet \in {0, 1}
             /\ lastRet = 1 <=> InitStages \subseteq passed
             /\ "write_protect" \in passed =>
                   {"response", "token", "crc"} \subseteq passed
             /\ lastRet = 1 =>
                   HasFlag(flags, SDF_INITIALIZED) /\ rate = SPI_XFER_RATE)
    /\ [][ (pc = "init_stage" /\ loc.stage = 5 /\ loc.sd_ver = 2) =>
              (loc'.stage = 6 \/ (pc' = "idle" /\ lastRet' = 0)) ]_vars
    /\ [][ (pc = "init_stage" /\ loc.stage = 6) =>
              IF "ocr_again" \in passed'
              THEN loc'.stage = 7
              ELSE pc' = "idle" /\ lastRet' = 0 ]_vars
    /\ [][ (pc = "init_stage" /\ loc'.stage = 7) =>
              \/ loc.stage = 5 /\ loc.sd_ver = 1
              \/ loc.stage = 6 ]_vars
    /\ [][ ( \/ HasFlag(flags', SDF_INITIALIZED) /\ ~HasFlag(flags, SDF_INITIALIZED)
             \/ rate' = SPI_XFER_RATE /\ rate # SPI_XFER_RATE ) =>
              /\ pc = "init_stage" /\ loc.stage = 8
              /\ pc' = "idle" /\ lastOp' = "init" /\ lastRet' = 1
              /\ InitStages \ {"write_protect"} \subseteq passed
              /\ "write_protect" \in passed'
              /\ rate = SPI_INIT_RATE /\ rate' = SPI_XFER_RATE
              /\ HasFlag(flags', SDF_INITIALIZED) ]_vars

\* sdcard_init has succeeded on a version-2 high-capacity card.
C7_Witness ==
    /\ lastOp = "init" /\ lastRet = 1
    /\ InitStages \cup {"ocr_again"} \subseteq passed
    /\ flags = BitOr(SDF_INITIALIZED, SDF_HIGH_CAPACITY)
    /\ rate = SPI_XFER_RATE

\* C8: every bit of err set before a step is set after it, whichever
\* operation takes the step and whatever its outcome: err changes only by
\* bits being OR-ed in.
C8_ErrSticky ==
    [][ BitAnd(err, err') = err ]_vars

\* A second sdcard_init has succeeded with the error bit of the failed first
\* one still set.
C8_Witness ==
    /\ lastOp = "init" /\ lastRet = 1 /\ inits = 2
    /\ HasFlag(flags, SDF_INITIALIZED) /\ err # 0

\* C9 as stated: err changes only in steps of sdcard_init.
C9_OnlyInitAddsErrors ==
    [][ err' = err \/ op = "init" ]_vars

\* The bits of mask are the same in err before and after the step.
ErrKeeps(mask) == BitAnd(err', mask) = BitAnd(err, mask)

\* C9, amended: sdcard_init, sdcard_read_sector and sdcard_write_sector can
\* each add bits to err.  A read adds at most SDE_READ_ERR and SDE_CRC_ERR, a
\* write adds at most SDE_WRITE_ERR, sdcard_init adds any bit but
\* SDE_WRITE_ERR; sdcard_deinit and the calls refused on a device that is not
\* initialized leave err as it was.
C9_ErrorSources ==
    [][ /\ op = "read" => ErrKeeps(255 - BitOr(SDE_READ_ERR, SDE_CRC_ERR))
        /\ op = "write" => ErrKeeps(255 - SDE_WRITE_ERR)
        /\ op = "init" => ErrKeeps(SDE_WRITE_ERR)
        /\ op \in {"deinit", "none"} => err' = err ]_vars

\* A write on an initialized device with no earlier error has failed and set
\* SDE_WRITE_ERR.
C9_Witness ==
    /\ lastOp = "write" /\ lastRet = 0 /\ HasFlag(flags, SDF_INITIALIZED)
    /\ err = SDE_WRITE_ERR

\* The level of the line just before event j of evs, from level.
LevelBefore(level, evs, j) == LevelAfter(level, SubSeq(evs, 1, j - 1))

\* C10: when sdcard_init, sdcard_read_sector, sdcard_write_sector or
\* sdcard_deinit has returned, the chip-select line is high; every write of 0
\* to the line finds it high, so each assertion is followed by a release
\* before the next assertion.
C10_ChipSelectReleased ==
    /\ []((pc = "idle" /\ rate # 0) => cs = 1)
    /\ [][ \A j \in 1..Len(hw') :
              hw'[j] = CsEv(0) => LevelBefore(cs, hw', j) = 1 ]_vars

\* A write whose data was accepted has returned 0 on the busy timeout, with
\* the line high.
C10_Witness ==
    /\ lastOp = "write" /\ lastRet = 0 /\ touched
    /\ "accepted" \in passed /\ "released" \notin passed
    /\ hw = <<CsEv(1)>> /\ cs = 1

\* C11 as stated: after the sdcard_deinit call that performed the exchange on
\* a device that sdcard_init has initialized, SDF_DEINIT is set and the bus
\* clock is SPI_INIT_RATE.
C11_DeinitLowSpeed ==
    (pc = "idle" /\ lastOp = "deinit" /\ touched
     /\ HasFlag(flags, SDF_INITIALIZED)) =>
        (HasFlag(flags, SDF_DEINIT) /\ rate = SPI_INIT_RATE)

\* C11, what the code does: sdcard_deinit sets SDF_DEINIT and never changes
\* the bus clock, so the clock after the call is the one before it:
\* SPI_XFER_RATE when the last sdcard_init succeeded.
C11_DeinitKeepsRate ==
    /\ [][ (CallStep("deinit") \/ op = "deinit") => rate' = rate ]_vars
    /\ []((pc = "idle" /\ lastOp = "deinit") => HasFlag(flags, SDF_DEINIT))

\* The exchange of sdcard_deinit has been made after a successful
\* sdcard_init, and the bus clock is still SPI_XFER_RATE.
C11_Witness ==
    /\ pc = "idle" /\ lastOp = "deinit" /\ touched /\ inits = 1 /\ ops = 2
    /\ flags = BitOr(SDF_INITIALIZED, SDF_DEINIT)
    /\ rate = SPI_XFER_RATE /\ cs = 1

\* Bit k (from 1, most significant bit of the first byte first) of bytes.
MessageBit(bytes, k) ==
    (bytes[((k - 1) \div 8) + 1] \div (2 ^ (7 - ((k - 1) % 8)))) % 2

\* One step of the division by x^7 + x^3 + 1 on a 7-bit register: bit b of
\* the message enters register r.
ReferenceCrc7Step ==
    [r \in 0..127, b \in 0..1 |->
        IF ((r \div 64) + b) % 2 = 1
        THEN BitXor((r * 2) % 128, 9)
        ELSE (r * 2) % 128]

\* The CRC-7 of the SD protocol, bit by bit.
ReferenceCrc7(bytes) ==
    LET reg[k \in 0..(8 * Len(bytes))] ==
            IF k = 0 THEN 0
            ELSE ReferenceCrc7Step[reg[k - 1], MessageBit(bytes, k)]
    IN  reg[8 * Len(bytes)]

\* C12: the frame built for command index c and argument a is the six bytes
\* 0x40 | c, the four bytes of a most significant first, and the CRC7 of
\* those five bytes with its low bit set to 1; calc_crc7 (polynomial 0x12 on
\* an 8-bit register) gives the CRC-7 of the protocol in the upper seven
\* bits.  For go-idle with argument 0 the CRC byte is 0x95 and the frame on
\* the wire is 40 00 00 00 00 95.
C12_CommandFrame ==
    pc = "frame_sent" =>
       /\ hw = <<TxEv(loc.buf)>>
       /\ Len(loc.buf) = 6
       /\ \A k \in 1..6 : loc.buf[k] \in 0..255
       /\ loc.buf[1] = 64 + loc.cmd
       /\ loc.buf[2] * 256 + loc.buf[3] = loc.arg[1]
       /\ loc.buf[4] * 256 + loc.buf[5] = loc.arg[2]
       /\ loc.buf[6] % 2 = 1
       /\ loc.buf[6] = 2 * ReferenceCrc7(SubSeq(loc.buf, 1, 5)) + 1
       /\ (loc.cmd = SDCMD_GO_IDLE_STATE /\ loc.arg = W32(0)) =>
             /\ loc.buf[6] = 149
             /\ loc.buf = <<64, 0, 0, 0, 0, 149>>

\* The go-idle frame with argument 0 has been sent.
C12_Witness ==
    /\ pc = "frame_sent" /\ loc.cmd = SDCMD_GO_IDLE_STATE /\ loc.arg = W32(0)
    /\ hw = <<TxEv(<<64, 0, 0, 0, 0, 149>>)>>

\* The three checks of a block read.
ReadChecks == {"response", "token", "crc"}

\* C13: read_data_block returns 1 exactly when the response polls (at most
\* 16) ended on a byte equal to 0, the scan for the start token 0xFE found it
\* before its deadline, and the CRC16 trailer received equals calc_crc16 of
\* the bytes received.  Sixteen idle bytes count as a response that is not 0.
\* The scan for busy release changes none of this, and every return of 0 has
\* set SDE_READ_ERR.
C13_BlockReadSuccess ==
    /\ [][ pc = "rdb_poll" =>
              /\ loc.i < READ_RESPONSE_POLLS
              /\ loc.i = READ_RESPONSE_POLLS - 1 => pc' = "find_token"
              /\ IF pc' = "find_token"
                 THEN /\ "response" \in passed' <=> loc'.ret = 0
                      /\ loc'.ret \in {0, 1}
                 ELSE /\ pc' = "rdb_poll" /\ loc'.ret = 255
                      /\ passed' = passed ]_vars
    /\ [][ pc = "rdb_start" => ("token" \in passed' <=> loc.found = 1) ]_vars
    /\ [][ (pc = "find_token" /\ loc.site = "rdb_busy") =>
              (passed' = passed /\ loc'.ret = loc.ret) ]_vars
    /\ [][ pc = "rdb_busy" =>
              LET ok == ReadChecks \subseteq passed'
                  ret == IF op = "read" THEN lastRet' ELSE loc'.result
              IN  /\ passed' \ {"crc"} = passed
                  /\ "crc" \in passed' <=>
                        loc.cmd_buf[1] * 256 + loc.cmd_buf[2] = Crc16[loc.data]
                  /\ ret = IF ok THEN 1 ELSE 0
                  /\ IF ok THEN err' = err ELSE HasFlag(err', SDE_READ_ERR) ]_vars

\* A read has returned 1 with the three checks passed.
C13_Witness ==
    /\ pc = "idle" /\ lastOp = "read" /\ lastRet = 1
    /\ passed = ReadChecks /\ err = 0 /\ cs = 1

\* The three checks of a block write.
WriteChecks == {"response", "accepted", "released"}

\* C14: on an initialized device sdcard_write_sector returns 1 exactly when
\* the 8-byte window after the command held a byte other than 0xFF, the first
\* byte other than 0xFF of the 8-byte data-response window has low five bits
\* 00101, and the busy scan read 0xFF before its deadline.  Otherwise it sets
\* SDE_WRITE_ERR and returns 0.  Without a command response it releases
\* chip-select and returns with no further transfer: no 0xFE marker, payload
\* or CRC16 is sent.
C14_BlockWriteSuccess ==
    /\ [][ (pc = "idle" /\ op' = "write") =>
              /\ HasFlag(flags, SDF_INITIALIZED) /\ err' = err
              /\ Len(hw') = 3 /\ hw'[1] = CsEv(0) /\ hw'[2][1] = "tx"
              /\ hw'[3] = RxEv(RESPONSE_WINDOW)
              /\ "response" \in passed' <=> loc'.ret # 255 ]_vars
    /\ [][ pc = "write_resp" =>
              IF "response" \in passed
              THEN /\ pc' = "find_token" /\ err' = err
                   /\ hw' = << TxEv(<<254>>), TxEv(loc.data),
                               TxEv(<<loc.crc \div 256, loc.crc % 256>>),
                               RxEv(RESPONSE_WINDOW) >>
                   /\ loc.crc = Crc16[loc.data]
                   /\ "accepted" \in passed' <=> loc'.ret = 0
              ELSE /\ pc' = "idle" /\ lastOp' = "write" /\ lastRet' = 0
                   /\ HasFlag(err', SDE_WRITE_ERR)
                   /\ Transfers(hw') = {} /\ hw' = <<CsEv(1)>> ]_vars
    /\ [][ pc = "write_busy" =>
              /\ "released" \in passed' <=> loc.found = 1
              /\ passed' \ {"released"} = passed
              /\ pc' = "idle" /\ lastOp' = "write"
              /\ lastRet' = IF WriteChecks \subseteq passed' THEN 1 ELSE 0
              /\ IF WriteChecks \subseteq passed'
                 THEN err' = err
                 ELSE HasFlag(err', SDE_WRITE_ERR) ]_vars
    /\ []((pc = "idle" /\ lastOp = "write" /\ lastRet # not_ready) =>
             /\ lastRet = IF WriteChecks \subseteq passed THEN 1 ELSE 0
             /\ lastRet = 0 => HasFlag(err, SDE_WRITE_ERR))

\* A write has returned 1 with the three checks passed.
C14_Witness ==
    /\ pc = "idle" /\ lastOp = "write" /\ lastRet = 1
    /\ passed = WriteChecks /\ err = 0 /\ cs = 1

\* The command of each stage of sdcard_init, and the error bit of each of
\* the first seven.
StageCommand ==
    << SDCMD_GO_IDLE_STATE, SDCMD_SEND_IF_COND, SDCMD_CRC_ON_OFF,
       SDCMD_READ_OCR, SDCMD_SEND_OP_COND, SDCMD_READ_OCR,
       SDCMD_SET_BLOCKLEN, SDCMD_SEND_CSD >>

StageError ==
    << SDE_NO_IDLE, SDE_IF_COND_ERR, SDE_CRC_ERR, SDE_OCR_ERR,
       SDE_OP_COND_ERR, SDE_OCR_ERR, SDE_OTHER_ERR >>

\* The frames sent among the events evs.
FramesSent(evs) == {evs[j][2] : j \in {k \in Transfers(evs) : evs[k][1] = "tx"}}

\* C15: sdcard_init goes through its stages in the order go-idle, interface
\* condition, CRC enable, OCR read, operation condition, OCR read again
\* (version 2 only), block length, write-protect check.  The stage never
\* decreases; every command sent is the command of the current stage (behind
\* the application-command prefix for operation condition).  When one of the
\* first seven stages fails, sdcard_init returns 0 in that step, sends nothing
\* more, and ORs into err the bit of that stage and no other; while the
\* stages succeed err does not change.
C15_InitLinear ==
    /\ []((op = "init" /\ pc \in {"send_command", "read_data_block"}) =>
             /\ loc.stage \in 1..8
             /\ loc.cmd = StageCommand[loc.stage]
             /\ pc = "read_data_block" <=> loc.stage = 8)
    /\ [][ (op = "init" /\ op' = "init") =>
              /\ loc'.stage >= loc.stage
              /\ loc'.stage > loc.stage => pc = "init_stage" ]_vars
    /\ [][ (op = "init" /\ pc = "send_command") =>
              /\ err' = err
              /\ FramesSent(hw') \subseteq
                    { populate_buffer(loc.cmd, loc.arg), app_cmd_frame }
              /\ populate_buffer(loc.cmd, loc.arg) \in FramesSent(hw') ]_vars
    /\ [][ (pc = "init_stage" /\ loc.stage \in 1..7) =>
              IF pc' = "idle"
              THEN /\ lastOp' = "init" /\ lastRet' = 0
                   /\ err' = BitOr(err, StageError[loc.stage])
                   /\ hw' = <<>> /\ flags' = flags
              ELSE /\ err' = err
                   /\ Transfers(hw') = {}
                   /\ loc'.stage =
                         IF loc.stage = 5 /\ loc.sd_ver # 2 THEN 7
                         ELSE loc.stage + 1 ]_vars

\* The first sdcard_init has failed in the second OCR read, after operation
\* condition succeeded, with SDE_OCR_ERR alone.
C15_Witness ==
    /\ pc = "idle" /\ lastOp = "init" /\ lastRet = 0 /\ inits = 1
    /\ passed = {"go_idle", "if_cond", "crc_on", "ocr", "op_cond"}
    /\ err = SDE_OCR_ERR

\* The attempt budgets of the seven check_command stages of sdcard_init.
StageBudget ==
    << GO_IDLE_ATTEMPTS, IF_COND_ATTEMPTS, CRC_ON_ATTEMPTS, READ_OCR_ATTEMPTS,
       OP_COND_ATTEMPTS, OCR_AGAIN_ATTEMPTS, SET_BLOCKLEN_ATTEMPTS >>

\* C16: every call of sdcard_init, sdcard_read_sector, sdcard_write_sector
\* and sdcard_deinit that has been entered returns, whatever the card
\* answers, given that every transfer returns and the timer advances.  In a
\* sdcard_init call the stages send at most 50, 3, 3, 20, 250, 5 and 3
\* commands; the response polls of a block read are at most 16; a token scan
\* without a match ends when the timer reaches the deadline 50 ms after its
\* start.
C16_Terminates ==
    /\ []((op = "init" /\ pc = "send_command") =>
             /\ loc.max_attempts = StageBudget[loc.stage]
             /\ loc.sends \in 1..StageBudget[loc.stage]
             /\ loc.attempts = loc.max_attempts - loc.sends + 1)
    /\ [](pc = "rdb_poll" => loc.i < READ_RESPONSE_POLLS)
    /\ [](pc = "find_token" =>
             /\ loc.endtime = timer_from_us(TOKEN_TIMEOUT_US)
             /\ loc.timer <= loc.endtime)
    /\ [][ (pc = "find_token" /\ loc.timer = loc.endtime) =>
              (pc' = loc.site /\ hw' = <<>>
               /\ (loc.site # "rdb_busy" => loc'.found = 0)) ]_vars
    /\ \A o \in {"init", "read", "write", "deinit"} :
          (op = o) ~> (pc = "idle" /\ lastOp = o)

\* sdcard_init has returned 0 from a card that never answered: 50 go-idle
\* commands, no stage passed.
C16_Witness ==
    /\ pc = "idle" /\ lastOp = "init" /\ lastRet = 0 /\ inits = 1
    /\ passed = {} /\ err = SDE_NO_IDLE /\ cs = 1

\* C17 as stated: when sdcard_init has returned, SDF_INITIALIZED is set
\* exactly if it returned 1.
C17_InitializedIffLastInit ==
    (pc = "idle" /\ lastOp = "init") =>
        (HasFlag(flags, SDF_INITIALIZED) <=> lastRet = 1)

\* C17, what the code does: SDF_INITIALIZED is never cleared.  It is set
\* exactly if some sdcard_init call so far has returned 1 (the bus clock is 0
\* before the first call, SPI_INIT_RATE after a call that failed,
\* SPI_XFER_RATE after one that succeeded), and a read or write on a device
\* with the flag set goes on to the card whatever the last sdcard_init
\* returned.
C17_InitializedSticky ==
    /\ [][ HasFlag(flags, SDF_INITIALIZED) => HasFlag(flags', SDF_INITIALIZED) ]_vars
    /\ [][ (HasFlag(flags', SDF_INITIALIZED) /\ ~HasFlag(flags, SDF_INITIALIZED)) =>
              (lastOp' = "init" /\ lastRet' = 1) ]_vars
    /\ []((pc = "idle" /\ lastOp = "init" /\ lastRet = 1) =>
             HasFlag(flags, SDF_INITIALIZED))
    /\ [][ \A o \in {"read", "write"} :
              (CallStep(o) /\ HasFlag(flags, SDF_INITIALIZED) /\ ops < MaxOps) =>
                 (op' = o /\ pc' # "idle") ]_vars

\* A read has gone on to the card and returned after the second sdcard_init
\* failed: SDF_INITIALIZED is left from the first one, the bus clock is the
\* one the failed call set.
C17_Witness ==
    /\ pc = "idle" /\ lastOp = "read" /\ lastRet \in {0, 1} /\ touched
    /\ inits = 2 /\ ops = 3
    /\ HasFlag(flags, SDF_INITIALIZED) /\ rate = SPI_INIT_RATE

\* The capacity bit of the OCR, byte 1 of the response.
OcrCapacityBit(buf) == BitAnd(buf[2], 64) # 0

\* C18 as stated: SDF_HIGH_CAPACITY after the second OCR read of a
\* sdcard_init call is the capacity bit of that read, and sdcard_init has not
\* returned 1 with the flag set for a card it did not classify as version 2.
C18_CapacityOfThisInit ==
    /\ [][ (pc = "init_stage" /\ loc.stage = 6 /\ loc.result # 0) =>
              (HasFlag(flags', SDF_HIGH_CAPACITY) <=> OcrCapacityBit(loc.buf)) ]_vars
    /\ []((pc = "idle" /\ lastOp = "init" /\ lastRet = 1 /\ "ocr_again" \notin passed) =>
             ~HasFlag(flags, SDF_HIGH_CAPACITY))

\* C18, what the code does: SDF_HIGH_CAPACITY changes only when the second
\* OCR read of a sdcard_init call has returned, where it is set if the
\* capacity bit is set and kept otherwise; it is never cleared.  A write that
\* follows a successful sdcard_init of a card not classified as version 2
\* sends the index untranslated when the flag is left from an earlier call.
C18_CapacitySticky ==
    /\ [][ HasFlag(flags, SDF_HIGH_CAPACITY) => HasFlag(flags', SDF_HIGH_CAPACITY) ]_vars
    /\ [][ (HasFlag(flags', SDF_HIGH_CAPACITY) /\ ~HasFlag(flags, SDF_HIGH_CAPACITY)) =>
              (pc = "init_stage" /\ loc.stage = 6 /\ loc.result # 0
               /\ OcrCapacityBit(loc.buf)) ]_vars
    /\ [][ (pc = "init_stage" /\ loc.stage = 6 /\ loc.result # 0) =>
              (HasFlag(flags', SDF_HIGH_CAPACITY) <=>
                  (HasFlag(flags, SDF_HIGH_CAPACITY) \/ OcrCapacityBit(loc.buf))) ]_vars
    /\ [][ (/\ pc = "idle" /\ lastOp = "init" /\ lastRet = 1
            /\ "ocr_again" \notin passed /\ HasFlag(flags, SDF_HIGH_CAPACITY)
            /\ op' = "write") =>
              FrameArg(hw'[2][2]) = loc'.sector ]_vars

\* The second sdcard_init has returned 1 for a card it did not classify as
\* version 2, with SDF_HIGH_CAPACITY left from the first.
C18_Witness ==
    /\ pc = "idle" /\ lastOp = "init" /\ lastRet = 1 /\ inits = 2
    /\ "ocr_again" \notin passed /\ InitStages \ {"ocr_again"} \subseteq passed
    /\ HasFlag(flags, SDF_HIGH_CAPACITY) /\ HasFlag(flags, SDF_INITIALIZED)

\* The protect field of the CSD register, byte 14 masked with 0x30.
CsdProtected(csd_buf) == BitAnd(csd_buf[15], 48) # 0

\* C19 as stated: SDF_WRITE_PROTECTED is set only by a sdcard_init call whose
\* CSD read succeeded and found protect bits; a CSD read that failed leaves
\* the flag as it was.
C19_ProtectedOnlyWhenReported ==
    /\ [][ (HasFlag(flags', SDF_WRITE_PROTECTED) /\ ~HasFlag(flags, SDF_WRITE_PROTECTED)) =>
              (pc = "init_stage" /\ loc.stage = 8 /\ loc.result = 1
               /\ CsdProtected(loc.data)) ]_vars
    /\ [][ (pc = "init_stage" /\ loc.stage = 8 /\ loc.result = 0) =>
              (HasFlag(flags', SDF_WRITE_PROTECTED) <=>
                  HasFlag(flags, SDF_WRITE_PROTECTED)) ]_vars

\* C19, what the code does: SDF_WRITE_PROTECTED is set only when the CSD read
\* of a sdcard_init call has returned, and there in both cases in which
\* sdcard_check_write_protect returns 0: the read failed, or it succeeded
\* and found protect bits.  The call then returns 0.  The flag is never
\* cleared.
C19_ProtectedOrUnread ==
    /\ [][ (HasFlag(flags', SDF_WRITE_PROTECTED) /\ ~HasFlag(flags, SDF_WRITE_PROTECTED)) =>
              (/\ pc = "init_stage" /\ loc.stage = 8
               /\ loc.result = 0 \/ CsdProtected(loc.data)) ]_vars
    /\ [][ (pc = "init_stage" /\ loc.stage = 8 /\ loc.result = 0) =>
              (/\ HasFlag(flags', SDF_WRITE_PROTECTED)
               /\ pc' = "idle" /\ lastOp' = "init" /\ lastRet' = 0
               /\ err # 0 /\ err' = err) ]_vars
    /\ [][ (pc = "init_stage" /\ loc.stage = 8 /\ loc.result = 1
            /\ ~CsdProtected(loc.data)) =>
              (/\ HasFlag(flags', SDF_WRITE_PROTECTED) <=>
                     HasFlag(flags, SDF_WRITE_PROTECTED)
               /\ lastRet' = 1) ]_vars
    /\ [][ HasFlag(flags, SDF_WRITE_PROTECTED) =>
              HasFlag(flags', SDF_WRITE_PROTECTED) ]_vars

\* The first sdcard_init has returned 0 after a CSD read whose command got no
\* valid response, with SDF_WRITE_PROTECTED set.
C19_Witness ==
    /\ pc = "idle" /\ lastOp = "init" /\ lastRet = 0 /\ inits = 1
    /\ "blocklen" \in passed /\ "response" \notin passed
    /\ HasFlag(flags, SDF_WRITE_PROTECTED) /\ ~HasFlag(flags, SDF_INITIALIZED)
    /\ HasFlag(err, SDE_READ_ERR)

\* C20: once sdcard_deinit has run, SDF_DEINIT stays set through every
\* operation, a sdcard_init that returns 1 included; sdcard_deinit changes no
\* flag but SDF_DEINIT.  So a sdcard_deinit call made with the flag set does
\* nothing, also right after a sdcard_init that returned 1, and
\* sdcard_read_sector and sdcard_write_sector called with SDF_DEINIT and
\* SDF_INITIALIZED set pass their guard and go on to the card.
C20_DeinitForever ==
    /\ [][ HasFlag(flags, SDF_DEINIT) => HasFlag(flags', SDF_DEINIT) ]_vars
    /\ [][ (CallStep("deinit") \/ op = "deinit") =>
              flags' \in {flags, BitOr(flags, SDF_DEINIT)} ]_vars
    /\ [][ (CallStep("init") \/ op = "init") =>
              HasFlag(flags', SDF_DEINIT) = HasFlag(flags, SDF_DEINIT) ]_vars
    /\ [][ (CallStep("deinit") /\ HasFlag(flags, SDF_DEINIT)) => NoOpStep ]_vars
    /\ [][ \A o \in {"read", "write"} :
              (/\ CallStep(o) /\ ops < MaxOps
               /\ HasFlag(flags, SDF_DEINIT) /\ HasFlag(flags, SDF_INITIALIZED)) =>
                 (/\ op' = o /\ pc' # "idle"
                  /\ IF o = "read" THEN pc' = "read_data_block"
                     ELSE hw'[1] = CsEv(0) /\ hw'[2][1] = "tx") ]_vars
    /\ [][ (pc = "read_data_block" /\ op = "read") =>
              (hw'[1] = CsEv(0) /\ hw'[2][1] = "tx") ]_vars

\* The second sdcard_init has returned 1 on a device on which sdcard_deinit
\* has run: SDF_DEINIT is still set, and the next sdcard_deinit call does
\* nothing.
C20_Witness ==
    /\ pc = "idle" /\ lastOp = "init" /\ lastRet = 1 /\ inits = 2 /\ ops = 3
    /\ HasFlag(flags, SDF_DEINIT) /\ HasFlag(flags, SDF_INITIALIZED)
    /\ rate = SPI_XFER_RATE

=============================================================================
